---- MODULE Spec2Model ----
(***************************************************************************)
(* The HaikuGenerator component: its five pieces of React state, the       *)
(* event handlers that change them and the asynchronous generation         *)
(* attempts started by handleGenerate.                                     *)
(*                                                                         *)
(* A JavaScript string is a sequence of one-character strings, so that     *)
(* trim(), includes() and template filling are computed, not assumed.      *)
(***************************************************************************)
EXTENDS Integers, Sequences, FiniteSets, TLC

VARIABLES
  input,         \* useState("")    the text of the input field
  haiku,         \* useState("")    the displayed haiku
  isGenerating,  \* useState(false) the in-progress flag
  showInfo,      \* useState(false) the info popover flag
  error,         \* useState("")    the error banner text
  apiKey,        \* API_CONFIG.apiKey is truthy
  inflight,      \* the activations of handleGenerate suspended at an await
  remoteCalls,   \* model.generateContent calls since the last accepted submission
  escaped,       \* an exception left generateHaikuFromAPI in the last attempt
  last           \* the handler or continuation that ran last, with its inputs

vars == <<input, haiku, isGenerating, showInfo, error, apiKey, inflight,
          remoteCalls, escaped, last>>

(***************************************************************************)
(* Bounds of the model.                                                    *)
(***************************************************************************)
\* Longest text typed into the input field.
MaxInputLen == 3

(***************************************************************************)
(* String literals of the source.                                          *)
(***************************************************************************)
EmptyString == << >>

\* 'Please enter a word or theme for your haiku.'
ValidationMsg ==
  <<
    "P", "l", "e", "a", "s", "e", " ", "e", "n", "t", "e", "r", " ", "a",
    " ", "w", "o", "r", "d", " ", "o", "r", " ", "t", "h", "e", "m", "e",
    " ", "f", "o", "r", " ", "y", "o", "u", "r", " ", "h", "a", "i", "k",
    "u", "."
  >>

\* 'Failed to generate haiku. Please try again.'
DefaultFailureMsg ==
  <<
    "F", "a", "i", "l", "e", "d", " ", "t", "o", " ", "g", "e", "n", "e",
    "r", "a", "t", "e", " ", "h", "a", "i", "k", "u", ".", " ", "P", "l",
    "e", "a", "s", "e", " ", "t", "r", "y", " ", "a", "g", "a", "i", "n",
    "."
  >>

\* 'Gemini API key not found. Please add VITE_GEMINI_API_KEY to your .env file.'
KeyNotFoundMsg ==
  <<
    "G", "e", "m", "i", "n", "i", " ", "A", "P", "I", " ", "k", "e", "y",
    " ", "n", "o", "t", " ", "f", "o", "u", "n", "d", ".", " ", "P", "l",
    "e", "a", "s", "e", " ", "a", "d", "d", " ", "V", "I", "T", "E", "_",
    "G", "E", "M", "I", "N", "I", "_", "A", "P", "I", "_", "K", "E", "Y",
    " ", "t", "o", " ", "y", "o", "u", "r", " ", ".", "e", "n", "v", " ",
    "f", "i", "l", "e", "."
  >>

\* '429'
Needle429 ==
  <<
    "4", "2", "9"
  >>

\* 'rate limit'
NeedleRateLimit ==
  <<
    "r", "a", "t", "e", " ", "l", "i", "m", "i", "t"
  >>

\* " whispers soft\nIn morning's gentle embrace\nPeace fills the warm air"
Template1Tail ==
  <<
    " ", "w", "h", "i", "s", "p", "e", "r", "s", " ", "s", "o", "f", "t",
    "\n", "I", "n", " ", "m", "o", "r", "n", "i", "n", "g", "'", "s", " ",
    "g", "e", "n", "t", "l", "e", " ", "e", "m", "b", "r", "a", "c", "e",
    "\n", "P", "e", "a", "c", "e", " ", "f", "i", "l", "l", "s", " ", "t",
    "h", "e", " ", "w", "a", "r", "m", " ", "a", "i", "r"
  >>

\* 'Dancing with '
Template2Head ==
  <<
    "D", "a", "n", "c", "i", "n", "g", " ", "w", "i", "t", "h", " "
  >>

\* "\nNature's rhythm guides my heart\nMoments become gold"
Template2Tail ==
  <<
    "\n", "N", "a", "t", "u", "r", "e", "'", "s", " ", "r", "h", "y", "t",
    "h", "m", " ", "g", "u", "i", "d", "e", "s", " ", "m", "y", " ", "h",
    "e", "a", "r", "t", "\n", "M", "o", "m", "e", "n", "t", "s", " ", "b",
    "e", "c", "o", "m", "e", " ", "g", "o", "l", "d"
  >>

\* ' speaks to me\nThrough silence of the old trees\nWisdom flows like streams'
Template3Tail ==
  <<
    " ", "s", "p", "e", "a", "k", "s", " ", "t", "o", " ", "m", "e", "\n",
    "T", "h", "r", "o", "u", "g", "h", " ", "s", "i", "l", "e", "n", "c",
    "e", " ", "o", "f", " ", "t", "h", "e", " ", "o", "l", "d", " ", "t",
    "r", "e", "e", "s", "\n", "W", "i", "s", "d", "o", "m", " ", "f", "l",
    "o", "w", "s", " ", "l", "i", "k", "e", " ", "s", "t", "r", "e", "a",
    "m", "s"
  >>

\* The eight sample words offered below the input.
sampleWords ==
  << <<"s", "u", "n", "s", "e", "t">>,
     <<"o", "c", "e", "a", "n">>,
     <<"d", "r", "e", "a", "m">>,
     <<"h", "o", "p", "e">>,
     <<"l", "o", "v", "e">>,
     <<"r", "a", "i", "n">>,
     <<"s", "p", "r", "i", "n", "g">>,
     <<"j", "o", "y">> >>

(***************************************************************************)
(* Values the environment can supply.                                      *)
(***************************************************************************)
\* Characters the user types: a blank and a letter.
InputAlphabet == {" ", "a"}

RECURSIVE StringsUpTo(_)
StringsUpTo(n) ==
  IF n = 0 THEN {EmptyString}
  ELSE LET shorter == StringsUpTo(n - 1)
       IN  shorter \cup {Append(s, c) : s \in {t \in shorter : Len(t) = n - 1},
                                       c \in InputAlphabet}

\* e.target.value of a change event.
InputValues == StringsUpTo(MaxInputLen)

\* e.key of a key press event.
Keys == {"Enter", "a"}

\* 'Network error'
MsgNetworkError ==
  <<
    "N", "e", "t", "w", "o", "r", "k", " ", "e", "r", "r", "o", "r"
  >>

\* 'HTTP 429'
MsgHttp429 ==
  <<
    "H", "T", "T", "P", " ", "4", "2", "9"
  >>

\* 'rate limit hit'
MsgQuota ==
  <<
    "r", "a", "t", "e", " ", "l", "i", "m", "i", "t", " ", "h", "i", "t"
  >>

\* 'Rate limit'
MsgCapitalRate ==
  <<
    "R", "a", "t", "e", " ", "l", "i", "m", "i", "t"
  >>

\* 'L1\nL2\nL3'
ResponsePlain ==
  <<
    "L", "1", "\n", "L", "2", "\n", "L", "3"
  >>

\* ' \nL1\nL2\nL3\n '
ResponsePadded ==
  <<
    " ", "\n", "L", "1", "\n", "L", "2", "\n", "L", "3", "\n", " "
  >>

\* ' \n'
ResponseBlank ==
  <<
    " ", "\n"
  >>

\* Response texts of the remote model: plain, padded with white space, blank.
Responses == {ResponsePlain, ResponsePadded, ResponseBlank}

\* Values a failed await can throw: an object without a usable message
\* property, or an Error carrying a message.
FailureMessages ==
  {EmptyString, MsgNetworkError, MsgHttp429, MsgQuota, MsgCapitalRate}

Failures ==
  {[hasMessage |-> FALSE, message |-> EmptyString]}
    \cup {[hasMessage |-> TRUE, message |-> m] : m \in FailureMessages}

(***************************************************************************)
(* String functions of the JavaScript runtime, as the code uses them.      *)
(***************************************************************************)
WhiteSpace == {" ", "\t", "\n", "\r"}

\* String.prototype.trim
Trim(s) ==
  LET solid == {i \in 1..Len(s) : s[i] \notin WhiteSpace}
  IN  IF solid = {} THEN EmptyString
      ELSE LET first == CHOOSE i \in solid : \A j \in solid : i <= j
               final == CHOOSE i \in solid : \A j \in solid : j <= i
           IN  SubSeq(s, first, final)

\* String.prototype.includes
Includes(s, sub) ==
  \E i \in 0..(Len(s) - Len(sub)) : SubSeq(s, i + 1, i + Len(sub)) = sub

(***************************************************************************)
(* What the markup disables.                                               *)
(***************************************************************************)
InputDisabled == isGenerating

\* Variant: the submit button is disabled on an empty input only.
SubmitDisabledIgnoresFlag == Trim(input) = EmptyString

SubmitDisabled == isGenerating \/ Trim(input) = EmptyString

SampleDisabled == isGenerating

(***************************************************************************)
(* Bookkeeping of the step that ran last.                                  *)
(***************************************************************************)
NoFailure == [hasMessage |-> FALSE, message |-> EmptyString]

Step(op) ==
  [op |-> op, theme |-> EmptyString, text |-> EmptyString, err |-> NoFailure]

Remove(seq, i) == SubSeq(seq, 1, i - 1) \o SubSeq(seq, i + 1, Len(seq))

(***************************************************************************)
(* The fallback generator.                                                 *)
(***************************************************************************)
fallbackHaikus(theme) ==
  << theme \o Template1Tail,
     Template2Head \o theme \o Template2Tail,
     theme \o Template3Tail >>

\* Math.floor(Math.random() * 3) is 0, 1 or 2.
generateFallbackHaiku(theme) ==
  \E k \in 1..Len(fallbackHaikus(theme)) : haiku' = fallbackHaikus(theme)[k]

(***************************************************************************)
(* generateHaikuFromAPI: the catch and finally blocks.                     *)
(***************************************************************************)
\* Variant: the throttling test looks for "429" only.
IsRateLimit429Only(message) == Includes(message, Needle429)

IsRateLimit(message) ==
  Includes(message, Needle429) \/ Includes(message, NeedleRateLimit)

\* Variant: the message is shown without the generic default.
ErrorTextNoDefault(message) == message

\* err.message || "Failed to generate haiku. Please try again."
ErrorText(message) ==
  IF message = EmptyString THEN DefaultFailureMsg ELSE message

\* Variant: isGenerating is cleared at the end of the catch block instead of
\* in a finally block.
CatchNoFinally(theme, err, curError) ==
  IF ~err.hasMessage
  THEN /\ error' = curError
       /\ haiku' = haiku
       /\ isGenerating' = isGenerating
       /\ escaped' = TRUE
  ELSE /\ error' = IF Includes(err.message, Needle429)
                        \/ Includes(err.message, NeedleRateLimit)
                   THEN curError
                   ELSE IF err.message = EmptyString THEN DefaultFailureMsg
                        ELSE err.message
       /\ \E k \in 1..3 : haiku' = fallbackHaikus(theme)[k]
       /\ isGenerating' = FALSE
       /\ escaped' = FALSE

\* curError is the error state when the exception is caught.
Catch(theme, err, curError) ==
  IF ~err.hasMessage
  THEN \* err.message.includes throws a TypeError out of the catch block;
       \* the finally block runs and the TypeError leaves the function.
       /\ error' = curError
       /\ haiku' = haiku
       /\ isGenerating' = FALSE
       /\ escaped' = TRUE
  ELSE /\ error' = IF IsRateLimit(err.message) THEN curError
                   ELSE ErrorText(err.message)
       /\ generateFallbackHaiku(theme)
       /\ isGenerating' = FALSE
       /\ escaped' = FALSE

\* Variant: the attempt starts without setError("").
generateHaikuFromAPIKeepsError(theme) ==
  IF ~apiKey
  THEN /\ Catch(theme, [hasMessage |-> TRUE, message |-> KeyNotFoundMsg], error)
       /\ inflight' = inflight
  ELSE /\ error' = error
       /\ isGenerating' = TRUE
       /\ haiku' = haiku
       /\ escaped' = FALSE
       /\ inflight' = Append(inflight, [theme |-> theme, pc |-> "awaitImport"])

\* generateHaikuFromAPI from its entry to its first await.
generateHaikuFromAPI(theme) ==
  IF ~apiKey
  THEN /\ Catch(theme, [hasMessage |-> TRUE, message |-> KeyNotFoundMsg],
                EmptyString)
       /\ inflight' = inflight
  ELSE /\ error' = EmptyString
       /\ isGenerating' = TRUE
       /\ haiku' = haiku
       /\ escaped' = FALSE
       /\ inflight' = Append(inflight, [theme |-> theme, pc |-> "awaitImport"])

(***************************************************************************)
(* Event handlers.                                                         *)
(***************************************************************************)
\* Variant: the emptiness test is made on the untrimmed input.
handleGenerateNoTrim ==
  LET theme == Trim(input)
  IN  IF input = EmptyString
      THEN /\ error' = ValidationMsg
           /\ last' = Step("validation")
           /\ UNCHANGED <<input, haiku, isGenerating, showInfo, apiKey,
                          inflight, remoteCalls, escaped>>
      ELSE /\ remoteCalls' = 0
           /\ last' = [Step("submit") EXCEPT !.theme = theme]
           /\ UNCHANGED <<input, showInfo, apiKey>>
           /\ IF apiKey
              THEN generateHaikuFromAPI(theme)
              ELSE /\ isGenerating' = TRUE
                   /\ escaped' = FALSE
                   /\ inflight' =
                        Append(inflight, [theme |-> theme, pc |-> "awaitTimer"])
                   /\ UNCHANGED <<haiku, error>>

\* Variant: the remote path is taken whether or not a key is configured.
handleGenerateAlwaysRemote ==
  LET theme == Trim(input)
  IN  IF theme = EmptyString
      THEN /\ error' = ValidationMsg
           /\ last' = Step("validation")
           /\ UNCHANGED <<input, haiku, isGenerating, showInfo, apiKey,
                          inflight, remoteCalls, escaped>>
      ELSE /\ remoteCalls' = 0
           /\ last' = [Step("submit") EXCEPT !.theme = theme]
           /\ UNCHANGED <<input, showInfo, apiKey>>
           /\ generateHaikuFromAPI(theme)

handleGenerate ==
  LET theme == Trim(input)
  IN  IF theme = EmptyString
      THEN /\ error' = ValidationMsg
           /\ last' = Step("validation")
           /\ UNCHANGED <<input, haiku, isGenerating, showInfo, apiKey,
                          inflight, remoteCalls, escaped>>
      ELSE /\ remoteCalls' = 0
           /\ last' = [Step("submit") EXCEPT !.theme = theme]
           /\ UNCHANGED <<input, showInfo, apiKey>>
           /\ IF apiKey
              THEN generateHaikuFromAPI(theme)
              ELSE /\ isGenerating' = TRUE
                   /\ escaped' = FALSE
                   /\ inflight' =
                        Append(inflight, [theme |-> theme, pc |-> "awaitTimer"])
                   /\ UNCHANGED <<haiku, error>>

\* Variant: a sample word also starts a generation attempt.
handleSampleClickGenerates(word) ==
  /\ input' = word
  /\ error' = EmptyString
  /\ isGenerating' = TRUE
  /\ inflight' = Append(inflight, [theme |-> word, pc |-> "awaitTimer"])
  /\ last' = [Step("sampleClick") EXCEPT !.text = word]
  /\ UNCHANGED <<haiku, showInfo, apiKey, remoteCalls, escaped>>

handleSampleClick(word) ==
  /\ input' = word
  /\ error' = EmptyString
  /\ last' = [Step("sampleClick") EXCEPT !.text = word]
  /\ UNCHANGED <<haiku, isGenerating, showInfo, apiKey, inflight,
                 remoteCalls, escaped>>

handleKeyPress(key) ==
  IF key = "Enter"
  THEN handleGenerate
  ELSE /\ last' = Step("keyPress")
       /\ UNCHANGED <<input, haiku, isGenerating, showInfo, error, apiKey,
                      inflight, remoteCalls, escaped>>

\* onChange of the input: setInput(e.target.value)
onChange(value) ==
  /\ input' = value
  /\ last' = Step("change")
  /\ UNCHANGED <<haiku, isGenerating, showInfo, error, apiKey, inflight,
                 remoteCalls, escaped>>

\* onClick of the info button: setShowInfo(!showInfo)
toggleInfo ==
  /\ showInfo' = ~showInfo
  /\ last' = Step("toggleInfo")
  /\ UNCHANGED <<input, haiku, isGenerating, error, apiKey, inflight,
                 remoteCalls, escaped>>

(***************************************************************************)
(* Events the browser delivers: none to a disabled control.                *)
(***************************************************************************)
Change == \E value \in InputValues : ~InputDisabled /\ onChange(value)

KeyPress == \E key \in Keys : ~InputDisabled /\ handleKeyPress(key)

SubmitClick == ~SubmitDisabled /\ handleGenerate

SampleClick ==
  \E k \in 1..Len(sampleWords) : ~SampleDisabled /\ handleSampleClick(sampleWords[k])

InfoClick == toggleInfo

(***************************************************************************)
(* Continuations of a suspended activation.                                *)
(***************************************************************************)
\* await import(...) succeeds; model.generateContent(prompt) is called.
ImportResolves(i) ==
  /\ inflight[i].pc = "awaitImport"
  /\ inflight' = [inflight EXCEPT ![i].pc = "awaitRemote"]
  /\ remoteCalls' = remoteCalls + 1
  /\ last' = [Step("importResolved") EXCEPT !.theme = inflight[i].theme]
  /\ UNCHANGED <<input, haiku, isGenerating, showInfo, error, apiKey, escaped>>

\* await import(...) throws.
ImportRejects(i, err) ==
  /\ inflight[i].pc = "awaitImport"
  /\ Catch(inflight[i].theme, err, error)
  /\ inflight' = Remove(inflight, i)
  /\ last' = [Step("importRejected") EXCEPT !.theme = inflight[i].theme,
                                           !.err = err]
  /\ UNCHANGED <<input, showInfo, apiKey, remoteCalls>>

\* generateContent and result.response resolve; setHaiku(response.text().trim())
RemoteResolves(i, text) ==
  /\ inflight[i].pc = "awaitRemote"
  /\ haiku' = Trim(text)
  /\ isGenerating' = FALSE
  /\ inflight' = Remove(inflight, i)
  /\ last' = [Step("remoteResolved") EXCEPT !.theme = inflight[i].theme,
                                           !.text = text]
  /\ UNCHANGED <<input, showInfo, error, apiKey, remoteCalls, escaped>>

\* generateContent, result.response or response.text() throws.
RemoteRejects(i, err) ==
  /\ inflight[i].pc = "awaitRemote"
  /\ Catch(inflight[i].theme, err, error)
  /\ inflight' = Remove(inflight, i)
  /\ last' = [Step("remoteRejected") EXCEPT !.theme = inflight[i].theme,
                                           !.err = err]
  /\ UNCHANGED <<input, showInfo, apiKey, remoteCalls>>

\* The 1500 ms timer of the branch without a key fires.
TimerFires(i) ==
  /\ inflight[i].pc = "awaitTimer"
  /\ generateFallbackHaiku(inflight[i].theme)
  /\ isGenerating' = FALSE
  /\ inflight' = Remove(inflight, i)
  /\ last' = [Step("timerFired") EXCEPT !.theme = inflight[i].theme]
  /\ UNCHANGED <<input, showInfo, error, apiKey, remoteCalls, escaped>>

ImportResolved == \E i \in 1..Len(inflight) : ImportResolves(i)

ImportRejected ==
  \E i \in 1..Len(inflight) : \E err \in Failures : ImportRejects(i, err)

RemoteResolved ==
  \E i \in 1..Len(inflight) : \E text \in Responses : RemoteResolves(i, text)

RemoteRejected ==
  \E i \in 1..Len(inflight) : \E err \in Failures : RemoteRejects(i, err)

TimerFired == \E i \in 1..Len(inflight) : TimerFires(i)

Continue ==
  \/ ImportResolved
  \/ ImportRejected
  \/ RemoteResolved
  \/ RemoteRejected
  \/ TimerFired

(***************************************************************************)
(* The component after its first render.                                   *)
(***************************************************************************)
Init ==
  /\ input = EmptyString
  /\ haiku = EmptyString
  /\ isGenerating = FALSE
  /\ showInfo = FALSE
  /\ error = EmptyString
  /\ apiKey \in BOOLEAN
  /\ inflight = << >>
  /\ remoteCalls = 0
  /\ escaped = FALSE
  /\ last = Step("render")

Next ==
  \/ Change
  \/ KeyPress
  \/ SubmitClick
  \/ SampleClick
  \/ InfoClick
  \/ ImportResolved
  \/ ImportRejected
  \/ RemoteResolved
  \/ RemoteRejected
  \/ TimerFired

Spec == Init /\ [][Next]_vars

\* A pending import, remote call or timer settles.
FairSpec == Spec /\ WF_vars(Continue)

(***************************************************************************)
(* Properties.                                                             *)
(***************************************************************************)

\* C1: without an API key, when the timer of an attempt on a non-empty theme
\* has fired, the haiku is one of the three fallback templates filled with
\* the theme, it contains the theme, and the error message is empty.
C1_NoKeyFallbackShowsNoError ==
  (last.op = "timerFired") =>
    /\ ~apiKey
    /\ last.theme # EmptyString
    /\ haiku \in {fallbackHaikus(last.theme)[k] : k \in 1..3}
    /\ Includes(haiku, last.theme)
    /\ error = EmptyString

\* C2: whatever the remote call throws, no exception leaves
\* generateHaikuFromAPI and the attempt ends with a fallback haiku for the
\* submitted theme.
C2_RemoteFailureCaughtLocally ==
  (last.op = "remoteRejected") =>
    /\ ~escaped
    /\ haiku \in {fallbackHaikus(last.theme)[k] : k \in 1..3}

\* C3: isGenerating is false whenever no attempt is suspended, and whenever
\* isGenerating is true it is false again later, given that pending imports,
\* remote calls and timers settle.
C3_InProgressFlagCleared ==
  /\ [](inflight = << >> => ~isGenerating)
  /\ (isGenerating ~> (~isGenerating /\ inflight = << >>))

\* An attempt has ended by an exception thrown inside the catch block, and
\* the flag is cleared.
C3_Witness ==
  /\ last.op = "remoteRejected"
  /\ ~last.err.hasMessage
  /\ escaped
  /\ inflight = << >>
  /\ ~isGenerating

\* C4: while isGenerating holds the input, the submit button and the sample
\* buttons are disabled; at most one attempt is suspended, the input still
\* trims to its theme, and when an attempt has just ended the input and the
\* submit button are enabled.
C4_SingleAttemptInFlight ==
  /\ Len(inflight) <= 1
  /\ isGenerating => (InputDisabled /\ SubmitDisabled /\ SampleDisabled)
  /\ inflight # << >> => (isGenerating /\ Trim(input) = inflight[1].theme)
  /\ last.op \in {"importRejected", "remoteResolved", "remoteRejected",
                  "timerFired"}
       => (~InputDisabled /\ ~SubmitDisabled)

\* An attempt is suspended, the controls are disabled, and the user has
\* acted meanwhile (the info button is the one control left enabled).
C4_Witness ==
  /\ Len(inflight) = 1
  /\ InputDisabled /\ SubmitDisabled /\ SampleDisabled
  /\ last.op = "toggleInfo"

\* C5: handleGenerate on an input that is empty after trim sets the
\* validation error and starts nothing: no activation, no remote call,
\* isGenerating stays false, haiku and input are unchanged.
C5_BlankInputRejected ==
  [][ (Trim(input) = EmptyString /\ last'.op \in {"validation", "submit"}) =>
        /\ last'.op = "validation"
        /\ error' = ValidationMsg
        /\ ~isGenerating /\ ~isGenerating'
        /\ inflight' = << >>
        /\ UNCHANGED <<haiku, input, remoteCalls, inflight>> ]_vars

\* Enter was pressed on a white-space-only input while a haiku was shown.
C5_Witness ==
  /\ last.op = "validation"
  /\ input # EmptyString
  /\ Trim(input) = EmptyString
  /\ error = ValidationMsg
  /\ haiku # EmptyString
  /\ ~isGenerating

\* C6: when the remote call fails with a message containing "429" or
\* "rate limit", the attempt ends with one of the three fallback templates
\* filled with the theme and with an empty error message.
C6_RateLimitSuppressed ==
  ( /\ last.op = "remoteRejected"
    /\ last.err.hasMessage
    /\ \/ Includes(last.err.message, Needle429)
       \/ Includes(last.err.message, NeedleRateLimit) ) =>
    /\ apiKey
    /\ haiku \in {fallbackHaikus(last.theme)[k] : k \in 1..3}
    /\ error = EmptyString
    /\ ~escaped

\* A remote call failed with "rate limit hit".
C6_Witness ==
  /\ last.op = "remoteRejected"
  /\ last.err.hasMessage
  /\ last.err.message = MsgQuota
  /\ haiku = Template2Head \o last.theme \o Template2Tail
  /\ error = EmptyString

\* C7: when the remote call fails with a message containing neither "429"
\* nor "rate limit", the attempt ends with the error equal to the message,
\* or to the generic default when the message is empty, and with a fallback
\* haiku for the theme.
C7_OtherFailureShowsBoth ==
  ( /\ last.op = "remoteRejected"
    /\ last.err.hasMessage
    /\ ~Includes(last.err.message, Needle429)
    /\ ~Includes(last.err.message, NeedleRateLimit) ) =>
    /\ apiKey
    /\ error = IF last.err.message = EmptyString THEN DefaultFailureMsg
               ELSE last.err.message
    /\ error # EmptyString
    /\ haiku \in {fallbackHaikus(last.theme)[k] : k \in 1..3}

\* A remote call failed with an empty message.
C7_Witness ==
  /\ last.op = "remoteRejected"
  /\ last.err.hasMessage
  /\ last.err.message = EmptyString
  /\ error = DefaultFailureMsg
  /\ haiku = last.theme \o Template3Tail

\* C8: when the remote call succeeds, the attempt ends with the haiku equal
\* to the response text without its leading and trailing white space, and
\* with an empty error message.
C8_SuccessStoresTrimmedText ==
  (last.op = "remoteResolved") =>
    /\ apiKey
    /\ haiku = Trim(last.text)
    /\ Includes(last.text, haiku)
    /\ haiku # EmptyString =>
         (haiku[1] \notin WhiteSpace /\ haiku[Len(haiku)] \notin WhiteSpace)
    /\ haiku = EmptyString => \A i \in 1..Len(last.text) : last.text[i] \in WhiteSpace
    /\ error = EmptyString

\* A padded response was stored without its padding.
C8_Witness ==
  /\ last.op = "remoteResolved"
  /\ last.text = ResponsePadded
  /\ haiku = ResponsePlain
  /\ error = EmptyString

\* C9: a click on a sample word sets the input to that word and the error
\* to the empty string, and leaves the haiku, isGenerating, the info flag,
\* the suspended activations and the remote calls as they were.
C9_SampleClickFrame ==
  [][ (last'.op = "sampleClick") =>
        /\ \E k \in 1..Len(sampleWords) : last'.text = sampleWords[k]
        /\ input' = last'.text
        /\ error' = EmptyString
        /\ UNCHANGED <<haiku, isGenerating, showInfo, inflight, remoteCalls>> ]_vars

\* A sample word was clicked while a haiku was shown.
C9_Witness ==
  /\ last.op = "sampleClick"
  /\ input = sampleWords[8]
  /\ error = EmptyString
  /\ haiku # EmptyString
  /\ inflight = << >>
  /\ ~isGenerating

\* C10: a submission makes at most one remote call; without an API key no
\* remote call is made, no activation waits for the import or the remote
\* call, and the "Gemini API key not found" error is not shown.
C10_AtMostOneRemoteCall ==
  /\ remoteCalls <= 1
  /\ \A i \in 1..Len(inflight) :
       /\ inflight[i].pc = "awaitRemote" => remoteCalls = 1
       /\ inflight[i].pc = "awaitImport" => remoteCalls = 0
  /\ ~apiKey =>
       /\ remoteCalls = 0
       /\ error # KeyNotFoundMsg
       /\ \A i \in 1..Len(inflight) : inflight[i].pc = "awaitTimer"

\* A remote call has failed and the submission has ended with one call made.
C10_Witness ==
  /\ apiKey
  /\ last.op = "remoteRejected"
  /\ remoteCalls = 1
  /\ inflight = << >>

====
